---------------------------- MODULE Spec2Model ----------------------------
(***************************************************************************)
(* Firestore Backup Manager: the field-value codec (extractFieldValue,     *)
(* formatToFirestoreField), the paginated export loop                      *)
(* (backupFirestoreToDrivePaginated) and the patch-restore loop            *)
(* (restoreFirestoreFromDriveCore), modelled from the Apps Script source.  *)
(***************************************************************************)
EXTENDS Integers, Sequences, FiniteSets, TLC

(***************************************************************************)
(* Bounds of the model.                                                    *)
(***************************************************************************)
MaxPages == 3        \* page fetches of one export run
MaxPageDocs == 2     \* documents in one page response
MaxRecords == 3      \* records in one backup file
MaxLen == 2          \* elements of a generated array / entries of an object
MaxDepth == 2        \* nesting depth of generated plain values
MaxFolders == 2      \* folders in the Drive before a backup is saved

(***************************************************************************)
(* JavaScript values.  Every value is a record tagged by t; a string is a  *)
(* sequence of characters, a number is kept in tenths (x10 = 10 * value)   *)
(* so that integers and one-decimal fractions are both representable, an   *)
(* array is a sequence, an object is the sequence of its own enumerable    *)
(* <<key, value>> entries in insertion order.                              *)
(***************************************************************************)
Null == [t |-> "null"]
Undefined == [t |-> "undefined"]
Bool(b) == [t |-> "boolean", b |-> b]
Num(x10) == [t |-> "number", x10 |-> x10]
IntNum(n) == Num(10 * n)
Str(s) == [t |-> "string", s |-> s]
Arr(a) == [t |-> "array", a |-> a]
Obj(o) == [t |-> "object", o |-> o]
\* the value a throwing call leaves instead of a result
Thrown == [t |-> "thrown"]
\* no value yet (a local variable before its assignment)
None == [t |-> "none"]

\* typeof value
TypeOf(v) ==
  CASE v.t = "null" -> "object"
    [] v.t = "array" -> "object"
    [] OTHER -> v.t

\* !!value
Truthy(v) ==
  CASE v.t = "null" -> FALSE
    [] v.t = "undefined" -> FALSE
    [] v.t = "boolean" -> v.b
    [] v.t = "number" -> v.x10 # 0
    [] v.t = "string" -> Len(v.s) > 0
    [] OTHER -> TRUE

\* Number.isInteger(value)
IsInteger(v) == v.t = "number" /\ v.x10 % 10 = 0

DigitChar(d) == <<"0", "1", "2", "3", "4", "5", "6", "7", "8", "9">>[d + 1]

RECURSIVE NatToChars(_)
NatToChars(n) ==
  IF n < 10 THEN <<DigitChar(n)>>
  ELSE Append(NatToChars(n \div 10), DigitChar(n % 10))

\* value.toString() of an integral number: its decimal digits
IntToString(n) ==
  IF n < 0 THEN <<"-">> \o NatToChars(0 - n) ELSE NatToChars(n)

\* Object.keys(field): own keys of an object, indices of an array
ObjectKeys(v) ==
  CASE v.t = "object" -> [i \in 1..Len(v.o) |-> v.o[i][1]]
    [] v.t = "array" -> [i \in 1..Len(v.a) |-> ToString(i - 1)]
    [] OTHER -> <<>>

\* field[key] for a key that Object.keys or a literal names
GetProp(v, key) ==
  CASE v.t = "object" ->
         IF \E i \in 1..Len(v.o) : v.o[i][1] = key
         THEN v.o[CHOOSE i \in 1..Len(v.o) : v.o[i][1] = key][2]
         ELSE Undefined
    [] v.t = "array" ->
         IF \E i \in 1..Len(v.a) : ToString(i - 1) = key
         THEN v.a[CHOOSE i \in 1..Len(v.a) : ToString(i - 1) = key]
         ELSE Undefined
    [] v.t = "string" ->
         IF \E i \in 1..Len(v.s) : ToString(i - 1) = key
         THEN Str(<<v.s[CHOOSE i \in 1..Len(v.s) : ToString(i - 1) = key]>>)
         ELSE Undefined
    [] OTHER -> Undefined

\* the keys a for...in loop visits: own keys of an object, indices of an
\* array or of a string, nothing for the other primitives
ForInKeys(v) ==
  CASE v.t = "string" -> [i \in 1..Len(v.s) |-> ToString(i - 1)]
    [] OTHER -> ObjectKeys(v)

\* reading a property of null or undefined throws a TypeError
PropThrows(v) == v.t \in {"null", "undefined"}

(***************************************************************************)
(* FieldCodec, decode: extractFieldValue (Backup.js).                      *)
(***************************************************************************)
SimpleTags ==
  {"stringValue", "integerValue", "doubleValue", "booleanValue", "timestampValue"}

NullTags == {"nullValue", "undefinedValue"}

\* the tag of a field object: Object.keys(field)[0]
FieldType(field) ==
  IF Len(ObjectKeys(field)) > 0 THEN ObjectKeys(field)[1] ELSE "undefined"

\* mutant: an unrecognized tag degrades to null
ExtractDefaultNull(value) == Null

\* default: branch of the switch: the payload is returned as it is
ExtractDefault(value) == value

\* the five simple tags: the payload is returned verbatim
ExtractSimple(value) == value

AnyThrown(seq) == \E i \in 1..Len(seq) : seq[i] = Thrown

RECURSIVE extractFieldValue(_)
extractFieldValue(field) ==
  IF ~Truthy(field) \/ TypeOf(field) # "object" THEN Null
  ELSE
    LET type == FieldType(field)
        value == GetProp(field, type)
    IN CASE type \in SimpleTags -> ExtractSimple(value)
         [] type \in NullTags -> Null
         [] type = "arrayValue" ->
              IF PropThrows(value) THEN Thrown
              ELSE IF value.t = "array" THEN Thrown \* Array.prototype.values has no map
              ELSE LET values == GetProp(value, "values")
                   IN IF ~Truthy(values) THEN Arr(<<>>)
                      ELSE IF values.t # "array" THEN Thrown \* values.map is not a function
                      ELSE LET items == [i \in 1..Len(values.a) |->
                                           extractFieldValue(values.a[i])]
                           IN IF AnyThrown(items) THEN Thrown ELSE Arr(items)
         [] type = "mapValue" ->
              IF PropThrows(value) THEN Thrown
              ELSE LET fields == GetProp(value, "fields")
                       keys == ForInKeys(fields)
                       vals == [i \in 1..Len(keys) |->
                                  extractFieldValue(GetProp(fields, keys[i]))]
                   IN IF ~Truthy(fields) THEN Obj(<<>>)
                      ELSE IF AnyThrown(vals) THEN Thrown
                      ELSE Obj([i \in 1..Len(keys) |-> <<keys[i], vals[i]>>])
         [] OTHER -> ExtractDefault(value)

(***************************************************************************)
(* FieldCodec, encode: formatToFirestoreField.                             *)
(***************************************************************************)
IsDigit(c) == c \in {"0", "1", "2", "3", "4", "5", "6", "7", "8", "9"}

\* \d{4}-\d{2}-\d{2}T\d{2}:\d{2}:\d{2}\.\d{3}Z, "d" standing for \d
TimestampPattern ==
  <<"d", "d", "d", "d", "-", "d", "d", "-", "d", "d", "T", "d", "d", ":",
    "d", "d", ":", "d", "d", ".", "d", "d", "d", "Z">>

MatchesAt(s, off) ==
  /\ off + Len(TimestampPattern) <= Len(s)
  /\ \A k \in 1..Len(TimestampPattern) :
       IF TimestampPattern[k] = "d" THEN IsDigit(s[off + k])
       ELSE s[off + k] = TimestampPattern[k]

\* regex.test(value): the pattern has no anchors, so a match may start anywhere
TimestampTest(s) == \E off \in 0..Len(s) : MatchesAt(s, off)

\* a field object with one key
Field(tag, payload) == Obj(<< <<tag, payload>> >>)

\* typeof value === 'number'
FormatNumber(value) ==
  IF IsInteger(value)
  THEN Field("integerValue", Str(IntToString(value.x10 \div 10)))
  ELSE Field("doubleValue", value)

RECURSIVE formatToFirestoreField(_)
formatToFirestoreField(value) ==
  CASE value.t = "null" -> Field("nullValue", Null)
    [] value.t = "boolean" -> Field("booleanValue", value)
    [] value.t = "number" -> FormatNumber(value)
    [] value.t = "string" ->
         IF TimestampTest(value.s) THEN Field("timestampValue", value)
         ELSE Field("stringValue", value)
    [] value.t = "array" ->
         Field("arrayValue",
               Obj(<< <<"values", Arr([i \in 1..Len(value.a) |->
                                        formatToFirestoreField(value.a[i])])>> >>))
    [] value.t = "object" ->
         Field("mapValue",
               Obj(<< <<"fields", Obj([i \in 1..Len(value.o) |->
                                        <<value.o[i][1],
                                          formatToFirestoreField(value.o[i][2])>>])>> >>))
    [] OTHER -> Field("nullValue", Null)

(***************************************************************************)
(* Inputs of the codec: plain values of a backup file, nested to MaxDepth, *)
(* and wire fields as a page response may carry them.                      *)
(***************************************************************************)
TimestampString ==
  <<"2", "0", "2", "3", "-", "1", "0", "-", "2", "7", "T", "1", "0", ":",
    "0", "0", ":", "0", "0", ".", "0", "0", "0", "Z">>

DateString == <<"2", "0", "2", "3", "-", "1", "0", "-", "2", "7">>

\* a timestamp inside a longer text, at its end and at its start
TextEndingInTimestamp == <<"a", "t", " ">> \o TimestampString

TextStartingWithTimestamp == TimestampString \o <<"!">>

\* two fractional digits instead of three
ShortFractionString ==
  <<"2", "0", "2", "3", "-", "1", "0", "-", "2", "7", "T", "1", "0", ":",
    "0", "0", ":", "0", "0", ".", "0", "0", "Z">>

Atoms ==
  {Null, Bool(TRUE), Bool(FALSE), IntNum(0), IntNum(42), IntNum(-7), Num(35),
   Str(<<>>), Str(<<"a", "b">>), Str(DateString), Str(TimestampString),
   Str(TextEndingInTimestamp), Str(TextStartingWithTimestamp), Str(ShortFractionString)}

\* the atoms put inside arrays and objects
NestAtoms ==
  {Null, Bool(TRUE), IntNum(42), Num(35), Str(<<"a", "b">>), Str(TimestampString)}

FieldNames == {"a", "b"}

\* sequences of length n over S
SeqsOfLen(S, n) == [1..n -> S]

\* sequences of 0..n elements of S
SeqsUpTo(S, n) == UNION {SeqsOfLen(S, k) : k \in 0..n}

\* sequences of distinct field names
KeySeqs ==
  {ks \in SeqsUpTo(FieldNames, MaxLen) :
     \A i, j \in 1..Len(ks) : i # j => ks[i] # ks[j]}

ObjectsOver(S) ==
  UNION {{Obj([i \in 1..Len(ks) |-> <<ks[i], vs[i]>>]) : vs \in SeqsOfLen(S, Len(ks))} :
           ks \in KeySeqs}

ArraysOver(S) == {Arr(a) : a \in SeqsUpTo(S, MaxLen)}

RECURSIVE Nested(_)
Nested(d) ==
  IF d <= 1 THEN ArraysOver(NestAtoms) \cup ObjectsOver(NestAtoms)
  ELSE {Arr(<<v>>) : v \in Nested(d - 1)} \cup {Obj(<< <<"a", v>> >>) : v \in Nested(d - 1)}

PlainValues == Atoms \cup UNION {Nested(d) : d \in 1..MaxDepth}

\* tags the Firestore REST API has and the switch has no case for, and one
\* tag that does not exist
OtherTags == {"bytesValue", "referenceValue", "geoPointValue", "fooValue"}

Payloads ==
  {Null, Undefined, Bool(FALSE), IntNum(0), Str(<<"a", "b">>),
   Obj(<< <<"latitude", Num(35)>>, <<"longitude", IntNum(42)>> >>), Arr(<<Null>>)}

WireFields ==
  {Field(tag, p) : tag \in OtherTags \cup NullTags, p \in Payloads}
    \cup {Field("integerValue", Str(<<"4", "2">>)), Field("doubleValue", Num(35)),
          Field("arrayValue", Obj(<<>>)), Field("mapValue", Obj(<<>>)),
          Field("arrayValue", Null), Obj(<<>>), Null}
    \cup {Field("arrayValue", Obj(<< <<"values", Arr(<<Field(tag, Str(<<"a", "b">>))>>)>> >>)) :
            tag \in OtherTags}

(***************************************************************************)
(* Texts: the body of an HTTP response or the content of a Drive file is   *)
(* either a raw string (blank or not JSON at all) or the JSON text of a    *)
(* value.                                                                  *)
(***************************************************************************)
JsonText(v) == [t |-> "json", v |-> v]

\* !text: only the empty string is falsy
TextEmpty(text) == text.t = "string" /\ Len(text.s) = 0

\* text.trim().length === 0
TextBlank(text) ==
  text.t = "string" /\ \A i \in 1..Len(text.s) : text.s[i] \in {" ", "\n", "\t"}

\* JSON.parse(text): a SyntaxError on a text that is not JSON
JsonParse(text) == IF text.t = "json" THEN text.v ELSE Thrown

RECURSIVE SelectDefined(_)
SelectDefined(entries) ==
  IF Len(entries) = 0 THEN <<>>
  ELSE IF entries[1][2] = Undefined THEN SelectDefined(Tail(entries))
  ELSE <<entries[1]>> \o SelectDefined(Tail(entries))

\* the value JSON.stringify writes: an undefined entry of an object is
\* dropped, an undefined element of an array becomes null
RECURSIVE JsonValue(_)
JsonValue(v) ==
  CASE v.t = "array" ->
         Arr([i \in 1..Len(v.a) |->
                IF v.a[i] = Undefined THEN Null ELSE JsonValue(v.a[i])])
    [] v.t = "object" ->
         Obj(SelectDefined([i \in 1..Len(v.o) |->
                              <<v.o[i][1],
                                IF v.o[i][2] = Undefined THEN Undefined
                                ELSE JsonValue(v.o[i][2])>>]))
    [] OTHER -> v

\* JSON.stringify(value, null, 2)
JsonStringify(v) == JsonText(JsonValue(v))

\* the decimal text of a number kept in tenths
NumberToString(x10) ==
  LET abs == IF x10 < 0 THEN 0 - x10 ELSE x10
  IN (IF x10 < 0 THEN <<"-">> ELSE <<>>)
       \o NatToChars(abs \div 10)
       \o (IF abs % 10 = 0 THEN <<>> ELSE <<".", DigitChar(abs % 10)>>)

\* `${value}` inside a template literal: String(value)
RECURSIVE TemplateString(_)
TemplateString(v) ==
  LET RECURSIVE Join(_, _)
      Join(a, i) ==
        IF i > Len(a) THEN <<>>
        ELSE (IF i > 1 THEN <<",">> ELSE <<>>)
               \o (IF a[i].t \in {"null", "undefined"} THEN <<>> ELSE TemplateString(a[i]))
               \o Join(a, i + 1)
  IN CASE v.t = "string" -> v.s
       [] v.t = "undefined" -> <<"u", "n", "d", "e", "f", "i", "n", "e", "d">>
       [] v.t = "null" -> <<"n", "u", "l", "l">>
       [] v.t = "number" -> NumberToString(v.x10)
       [] v.t = "boolean" ->
            IF v.b THEN <<"t", "r", "u", "e">> ELSE <<"f", "a", "l", "s", "e">>
       [] v.t = "array" -> Join(v.a, 1)
       [] OTHER -> <<"[", "o", "b", "j", "e", "c", "t", " ", "O", "b", "j", "e", "c", "t", "]">>

(***************************************************************************)
(* Service-account token (Auth.js).                                        *)
(***************************************************************************)
BearerToken == Str(<<"y", "a", "2", "9">>)

\* what the token endpoint may answer
TokenResponses ==
  {[code |-> 200, text |-> JsonText(Obj(<< <<"access_token", BearerToken>> >>))],
   [code |-> 200, text |-> JsonText(Obj(<< <<"error", Str(<<"x">>)>> >>))],
   [code |-> 401, text |-> JsonText(Obj(<< <<"error", Str(<<"x">>)>> >>))],
   [code |-> 500, text |-> Str(<<>>)]}

\* mutant: neither the status of the token response nor the presence of
\* access_token is checked
TokenOfResponseUnchecked(response) ==
  LET tokenData == JsonParse(response.text)
  IN IF tokenData = Thrown THEN Thrown
     ELSE IF PropThrows(tokenData) THEN Thrown
     ELSE GetProp(tokenData, "access_token")

\* the token getServiceAccessToken returns for a response, Thrown when it throws
TokenOfResponse(response) ==
  IF response.code # 200 THEN Thrown
  ELSE LET tokenData == JsonParse(response.text)
       IN IF tokenData = Thrown THEN Thrown
          ELSE IF PropThrows(tokenData) THEN Thrown
          ELSE IF ~Truthy(GetProp(tokenData, "access_token")) THEN Thrown
          ELSE GetProp(tokenData, "access_token")

(***************************************************************************)
(* Export path: fetchFirestorePage and backupFirestoreToDrivePaginated.    *)
(***************************************************************************)
\* documents of the remote collection, as the REST API lists them
RemoteDoc1 ==
  Obj(<< <<"name", Str(<<"c", "/", "d", "1">>)>>,
         <<"fields", Obj(<< <<"a", Field("integerValue", Str(<<"4", "2">>))>>,
                            <<"docId", Field("stringValue", Str(<<"x">>))>> >>)>> >>)

RemoteDoc2 == Obj(<< <<"name", Str(<<"c", "/", "d", "2">>)>> >>)

RemoteDocs == {RemoteDoc1, RemoteDoc2}

\* the continuation token the server hands out with its k-th page
PageTokenOf(k) == Str(<<"t">> \o NatToChars(k))

PageBody(docs, token) ==
  Obj((IF Len(docs) > 0 THEN << <<"documents", Arr(docs)>> >> ELSE <<>>)
        \o (IF token = None THEN <<>> ELSE << <<"nextPageToken", token>> >>))

ErrorBody == JsonText(Obj(<< <<"error", Obj(<< <<"code", IntNum(403)>> >>)>> >>))

\* the documents of one page: a listing names a document at most once
PageListings ==
  {docs \in SeqsUpTo(RemoteDocs, MaxPageDocs) :
     \A i, j \in 1..Len(docs) : docs[i] = docs[j] => i = j}

\* what the documents endpoint may answer to the k-th page request
PageResponses(k) ==
  {[code |-> 200, text |-> JsonText(PageBody(docs, token))] :
     docs \in PageListings, token \in {None, PageTokenOf(k)}}
    \cup {[code |-> 200, text |-> Str(<<>>)],
          [code |-> 200, text |-> Str(<<"<">>)],
          [code |-> 403, text |-> ErrorBody],
          [code |-> 500, text |-> Str(<<>>)]}

\* mutant: every page request is the first-page request
PageRequestWithoutToken(token, bearer) == [pageToken |-> Null, bearer |-> bearer]

\* the GET request of fetchFirestorePage: &pageToken= is added when
\* nextPageToken is truthy, the Authorization header carries the token
PageRequest(token, bearer) ==
  [pageToken |-> IF Truthy(token) THEN token ELSE Null, bearer |-> bearer]

\* mutant: the status of a page response is not looked at
FetchPageResultNoStatusCheck(response) ==
  IF TextEmpty(response.text) THEN Obj(<<>>) ELSE JsonParse(response.text)

\* mutant: an empty body is handed to JSON.parse
FetchPageResultNoEmptyCheck(response) ==
  IF response.code # 200 THEN Thrown ELSE JsonParse(response.text)

\* what fetchFirestorePage returns for a response, Thrown when it throws
FetchPageResult(response) ==
  IF response.code # 200 THEN Thrown
  ELSE IF TextEmpty(response.text) THEN Obj(<<>>)
  ELSE JsonParse(response.text)

\* a || b
OrElse(a, b) == IF Truthy(a) THEN a ELSE b

LastIndexOf(s, c) ==
  IF \E i \in 1..Len(s) : s[i] = c
  THEN CHOOSE i \in 1..Len(s) : s[i] = c /\ \A j \in (i + 1)..Len(s) : s[j] # c
  ELSE 0

\* name.split("/").pop()
LastSegment(s) == SubSeq(s, LastIndexOf(s, "/") + 1, Len(s))

HasKey(entries, key) == \E i \in 1..Len(entries) : entries[i][1] = key

\* obj[key] = value on the entries of an object
SetProp(entries, key, value) ==
  IF HasKey(entries, key)
  THEN [i \in 1..Len(entries) |->
          IF entries[i][1] = key THEN <<key, value>> ELSE entries[i]]
  ELSE Append(entries, <<key, value>>)

\* the body of documents.forEach: the plain document of one listed document
DocData(doc) ==
  LET fields == GetProp(doc, "fields")
      keys == ForInKeys(fields)
      vals == [i \in 1..Len(keys) |-> extractFieldValue(GetProp(fields, keys[i]))]
      decodedFields == IF Truthy(fields)
                       THEN [i \in 1..Len(keys) |-> <<keys[i], vals[i]>>]
                       ELSE <<>>
      docName == GetProp(doc, "name")
  IN IF PropThrows(doc) THEN Thrown
     ELSE IF Truthy(fields) /\ AnyThrown(vals) THEN Thrown
     ELSE IF docName.t # "string" THEN Thrown
     ELSE Obj(SetProp(decodedFields, "docId", Str(LastSegment(docName.s))))

\* the elements pushed before the forEach body throws
RECURSIVE BeforeThrown(_)
BeforeThrown(docDatas) ==
  IF Len(docDatas) = 0 \/ docDatas[1] = Thrown THEN <<>>
  ELSE <<docDatas[1]>> \o BeforeThrown(Tail(docDatas))

\* mutant: a page replaces what was accumulated
PushDocumentsReplace(all, docDatas) == docDatas

\* allDocuments.push(docData) for every document of the page
PushDocuments(all, docDatas) == all \o docDatas

\* mutant: the loop runs once
LoopContinuesNever(token) == FALSE

\* while (nextPageToken)
LoopContinues(token) == Truthy(token)

\* const DRIVE_FOLDER_NAME
DRIVE_FOLDER_NAME == "Firestore Backups"

\* a folder of the user's Drive
Folder(id, name) == [id |-> id, name |-> name]

\* the folder ID the BACKUP_FOLDER_ID property may hold
ConfiguredId == <<"F", "1">>

\* props.backup_folder_id: the property is missing, empty or set
FolderIds == {Null, Str(<<>>), Str(ConfiguredId)}

\* the folders the Drive may hold before the backup is saved, in the order
\* a search lists them; IDs are unique
FolderPool ==
  {Folder(ConfiguredId, DRIVE_FOLDER_NAME), Folder(ConfiguredId, "Archive"),
   Folder(<<"F", "2">>, DRIVE_FOLDER_NAME)}

DistinctIds(drive) ==
  \A i, j \in 1..Len(drive) : drive[i].id = drive[j].id => i = j

DriveStates == {drive \in SeqsUpTo(FolderPool, MaxFolders) : DistinctIds(drive)}

\* the Drive call of the saving phase that throws when it is made
DriveFaults ==
  {"none", "getFolderById", "folder.getName", "getFoldersByName",
   "existingFolder.getName", "createFolder", "newFolder.getName", "createFile",
   "backupFolder.getName"}

\* e.message of a Drive error, as the catch of the saving phase tells them apart
DriveErrorMessages == {"Authorization is required", "Exception"}

\* a Drive call that was made, and whether it threw
Call(name, threw) == [call |-> name, threw |-> threw]

\* the position of the first folder with the ID, 0 when there is none
IndexById(drive, id) ==
  LET found == {i \in 1..Len(drive) : drive[i].id = id}
  IN IF found = {} THEN 0 ELSE CHOOSE i \in found : \A j \in found : i <= j

\* folders.hasNext() / folders.next() of getFoldersByName
IndexByName(drive, name) ==
  LET found == {i \in 1..Len(drive) : drive[i].name = name}
  IN IF found = {} THEN 0 ELSE CHOOSE i \in found : \A j \in found : i <= j

\* the folder DriveApp.createFolder makes in the Drive root
NewFolder(name) == Folder(<<"N">>, name)

\* the name-based part of getOrCreateFolder
SearchOrCreate(folderName, drive, fault, calls) ==
  LET found == IndexByName(drive, folderName)
      searched == Append(calls, Call("getFoldersByName", fault = "getFoldersByName"))
  IN IF fault = "getFoldersByName"
     THEN [folder |-> Thrown, folders |-> drive, calls |-> searched]
     ELSE IF found > 0
     THEN [folder |-> IF fault = "existingFolder.getName" THEN Thrown ELSE drive[found],
           folders |-> drive,
           calls |-> Append(searched,
                            Call("existingFolder.getName", fault = "existingFolder.getName"))]
     ELSE IF fault = "createFolder"
     THEN [folder |-> Thrown, folders |-> drive,
           calls |-> Append(searched, Call("createFolder", TRUE))]
     ELSE [folder |-> IF fault = "newFolder.getName" THEN Thrown ELSE NewFolder(folderName),
           folders |-> Append(drive, NewFolder(folderName)),
           calls |-> searched \o <<Call("createFolder", FALSE),
                                   Call("newFolder.getName", fault = "newFolder.getName")>>]

\* mutant: the folder ID is not looked at
GetOrCreateFolderByNameOnly(folderName, folderId, drive, fault) ==
  SearchOrCreate(folderName, drive, fault, <<>>)

\* getOrCreateFolder(folderName, folderId) on a Drive holding `drive`: the
\* folder returned (Thrown when a call throws outside the try), the folders
\* the Drive holds afterwards and the Drive calls made
GetOrCreateFolder(folderName, folderId, drive, fault) ==
  IF Truthy(folderId)
  THEN LET found == IndexById(drive, folderId.s)
           missing == found = 0 \/ fault = "getFolderById"
           byId == <<Call("getFolderById", missing)>>
       IN IF missing
          THEN SearchOrCreate(folderName, drive, fault, byId)
          ELSE IF fault = "folder.getName"
          THEN SearchOrCreate(folderName, drive, fault,
                              Append(byId, Call("folder.getName", TRUE)))
          ELSE [folder |-> drive[found], folders |-> drive,
                calls |-> Append(byId, Call("folder.getName", FALSE))]
  ELSE SearchOrCreate(folderName, drive, fault, <<>>)

\* mutant: the errors of the export are rethrown
ExportCatchRethrows == "raised"

\* how a run of backupFirestoreToDrivePaginated ends after one of its catch
\* blocks has logged the error
ExportCatch == "returned"

(***************************************************************************)
(* Import path: restoreFirestoreFromDriveCore.                             *)
(***************************************************************************)
\* records of a backup file; the third carries no docId
Record1 == Obj(<< <<"a", IntNum(42)>>, <<"docId", Str(<<"d", "1">>)>> >>)

Record2 ==
  Obj(<< <<"docId", Str(<<"d", "2">>)>>, <<"s", Str(<<"a", "b">>)>>, <<"n", Null>> >>)

Record3 == Obj(<< <<"a", Num(35)>> >>)

ImportRecords == {Record1, Record2, Record3}

\* what reading the Drive file may give: Thrown when getFileById or getBlob
\* throws, else the content of the file
DriveFiles ==
  {Thrown, Str(<<>>), Str(<<" ", "\n">>), Str(<<"<">>), JsonText(Null),
   JsonText(Obj(<<>>))}
    \cup {JsonText(Arr(recs)) : recs \in SeqsUpTo(ImportRecords, MaxRecords)}

\* what UrlFetchApp.fetch may give for an upsert: a response (HTTP errors
\* are muted) or Thrown when the request itself fails
UpsertReplies == {[code |-> 200], [code |-> 403], [code |-> 500], Thrown}

\* mutant: docId stays among the fields
WithoutKeyKeepsAll(entries, key) == entries

RECURSIVE WithoutKey(_, _)
WithoutKey(entries, key) ==
  IF Len(entries) = 0 THEN <<>>
  ELSE IF entries[1][1] = key THEN WithoutKey(Tail(entries), key)
  ELSE <<entries[1]>> \o WithoutKey(Tail(entries), key)

\* the PATCH request the forEach body builds for one record
UpsertRequest(docData, token) ==
  LET docId == GetProp(docData, "docId")
      rest == WithoutKey(IF docData.t = "object" THEN docData.o ELSE <<>>, "docId")
      formattedFields == Obj([i \in 1..Len(rest) |->
                                <<rest[i][1], formatToFirestoreField(rest[i][2])>>])
  IN [docId |-> TemplateString(docId),
      payload |-> JsonStringify(Obj(<< <<"fields", formattedFields>> >>)),
      bearer |-> token]

\* mutant: every response counts as a success
CountSuccessAlways(count, responseCode) == count + 1

\* if (responseCode === 200) successCount++
CountSuccess(count, responseCode) ==
  IF responseCode = 200 THEN count + 1 ELSE count

\* mutant: the catch block logs and returns
RestoreCatchSwallows == "returned"

\* how a run of restoreFirestoreFromDriveCore ends after its catch block
RestoreCatch == "raised"

RestoreComplete(count) == [t |-> "Restore complete", count |-> count]

\* e.message.includes(phrase), a message being a sequence of phrases
IncludesPhrase(message, phrase) == \E i \in 1..Len(message) : message[i] = phrase

\* mutant: the error is thrown on with the message it came with
ErrorMessageBare(message) == message

\* const errorMessage = e.message && e.message.includes("Restore failed")
\*   ? e.message : `Restore failed: Check ... Cause: ${e.message}`
ErrorMessage(message) ==
  IF Len(message) > 0 /\ IncludesPhrase(message, "Restore failed")
  THEN message
  ELSE <<"Restore failed", ": Check the Service Key, Project ID, or Firestore permissions. Cause: ">>
         \o message

\* the error the catch block throws for a caught error with message `cause`
RestoreFailed(cause) ==
  [t |-> "Restore failed", cause |-> cause, message |-> ErrorMessage(<<cause>>)]

VARIABLES
  run,            \* "codec", "export" or "import"
  pc,             \* the position of the run
  plain,          \* codec: the plain value to encode
  field,          \* codec: the wire field
  decoded,        \* codec: the decoded value
  accessToken,    \* let accessToken
  tokenCalls,     \* the calls of getServiceAccessToken
  allDocuments,   \* let allDocuments
  nextPageToken,  \* let nextPageToken
  pageCount,      \* let pageCount
  pageRequests,   \* the page requests sent, in order
  pageResponses,  \* the page responses received, in order
  files,          \* the files created in the backup folder
  folderId,       \* props.backup_folder_id
  driveBefore,    \* the folders of the Drive when the saving phase starts
  folders,        \* the folders of the Drive after the saving phase
  backupFolder,   \* let backupFolder
  driveCalls,     \* the Drive calls of the saving phase, in order
  logged,         \* the errors the catch blocks logged
  outcome,        \* "running", "returned" or "raised"
  fileReads,      \* the reads of the backup file
  fileContent,    \* let content: what reading the backup file gave
  documentsToRestore, \* let documentsToRestore
  successCount,   \* let successCount
  upserts,        \* the PATCH requests sent, in order
  upsertReplies,  \* what came back for each, in order
  result          \* the status message returned or the error thrown

vars ==
  <<run, pc, plain, field, decoded, accessToken, tokenCalls, allDocuments,
    nextPageToken, pageCount, pageRequests, pageResponses, files, folderId,
    driveBefore, folders, backupFolder, driveCalls, logged, outcome, fileReads, fileContent, documentsToRestore, successCount, upserts, upsertReplies,
    result>>

codecVars == <<plain, field, decoded>>
driveVars == <<driveBefore, folders, backupFolder, driveCalls>>
exportVars ==
  <<allDocuments, nextPageToken, pageCount, pageRequests, pageResponses, files,
    folderId, driveVars>>
importVars ==
  <<fileReads, fileContent, documentsToRestore, successCount, upserts, upsertReplies>>

IdleExport ==
  /\ allDocuments = <<>> /\ nextPageToken = Null /\ pageCount = 0
  /\ pageRequests = <<>> /\ pageResponses = <<>> /\ files = <<>>
  /\ driveBefore = <<>> /\ folders = <<>> /\ backupFolder = None /\ driveCalls = <<>>

IdleImport ==
  /\ fileReads = 0 /\ fileContent = None /\ documentsToRestore = None
  /\ successCount = 0
  /\ upserts = <<>> /\ upsertReplies = <<>>

IdleRun ==
  /\ accessToken = None /\ tokenCalls = 0
  /\ logged = <<>> /\ outcome = "running" /\ result = None

InitCodec ==
  /\ run = "codec"
  /\ \/ plain \in PlainValues /\ field = None /\ pc = "format"
     \/ plain = None /\ field \in WireFields /\ pc = "extract"
  /\ decoded = None /\ folderId = Null
  /\ IdleRun /\ IdleExport /\ IdleImport

\* the locals of backupFirestoreToDrivePaginated before its try block
InitExport ==
  /\ run = "export" /\ pc = "auth"
  /\ plain = None /\ field = None /\ decoded = None
  /\ folderId \in FolderIds
  /\ IdleRun /\ IdleExport /\ IdleImport

\* the locals of restoreFirestoreFromDriveCore before its try block
InitImport ==
  /\ run = "import" /\ pc = "auth"
  /\ plain = None /\ field = None /\ decoded = None /\ folderId = Null
  /\ IdleRun /\ IdleExport /\ IdleImport

\* encode one plain value of a record (formatToFirestoreField)
Format ==
  /\ run = "codec" /\ pc = "format"
  /\ field' = formatToFirestoreField(plain)
  /\ pc' = "extract"
  /\ UNCHANGED <<run, plain, decoded, accessToken, tokenCalls, exportVars, importVars, logged, outcome, result>>

\* decode one field of a document (extractFieldValue)
Extract ==
  /\ run = "codec" /\ pc = "extract"
  /\ decoded' = extractFieldValue(field)
  /\ pc' = "codec_done"
  /\ UNCHANGED <<run, plain, field, accessToken, tokenCalls, exportVars, importVars, logged, outcome, result>>

\* accessToken = getServiceAccessToken(props.service_account_key), export
ExportAuth ==
  /\ run = "export" /\ pc = "auth"
  /\ tokenCalls' = tokenCalls + 1
  /\ \E response \in TokenResponses :
       LET token == TokenOfResponse(response)
       IN IF token = Thrown
          THEN /\ logged' = Append(logged, "FINAL ERROR")
               /\ outcome' = ExportCatch
               /\ pc' = "done"
               /\ UNCHANGED accessToken
          ELSE /\ accessToken' = token
               /\ pc' = "fetch"
               /\ UNCHANGED <<logged, outcome>>
  /\ UNCHANGED <<run, codecVars, exportVars, importVars, result>>

\* one iteration of the do...while loop: fetchFirestorePage and the forEach
FetchPage ==
  /\ run = "export" /\ pc = "fetch"
  /\ pageCount < MaxPages
  /\ pageCount' = pageCount + 1
  /\ pageRequests' = Append(pageRequests, PageRequest(nextPageToken, accessToken))
  /\ \E response \in PageResponses(pageCount + 1) :
       LET pageResult == FetchPageResult(response)
           documents == OrElse(GetProp(pageResult, "documents"), Arr(<<>>))
           token == OrElse(GetProp(pageResult, "nextPageToken"), Null)
           docDatas == [i \in 1..Len(documents.a) |-> DocData(documents.a[i])]
       IN /\ pageResponses' = Append(pageResponses, response)
          /\ IF pageResult = Thrown \/ PropThrows(pageResult)
             THEN /\ logged' = Append(logged, "FINAL ERROR")
                  /\ outcome' = ExportCatch
                  /\ pc' = "done"
                  /\ UNCHANGED <<allDocuments, nextPageToken>>
             ELSE IF documents.t # "array" \/ AnyThrown(docDatas)
             THEN /\ logged' = Append(logged, "FINAL ERROR")
                  /\ outcome' = ExportCatch
                  /\ pc' = "done"
                  /\ nextPageToken' = token
                  /\ allDocuments' = IF documents.t # "array" THEN allDocuments
                                     ELSE PushDocuments(allDocuments, BeforeThrown(docDatas))
             ELSE /\ allDocuments' = PushDocuments(allDocuments, docDatas)
                  /\ nextPageToken' = token
                  /\ pc' = IF LoopContinues(token) THEN "fetch" ELSE "save"
                  /\ UNCHANGED <<logged, outcome>>
  /\ UNCHANGED <<run, codecVars, accessToken, tokenCalls, files, folderId, driveVars,
                 importVars, result>>

\* phase 2: getOrCreateFolder, JSON.stringify and createFile, inside the
\* inner try block whose catch logs the Drive error
SaveToDrive ==
  /\ run = "export" /\ pc = "save"
  /\ \E drive \in DriveStates, fault \in DriveFaults, message \in DriveErrorMessages :
       LET got == GetOrCreateFolder(DRIVE_FOLDER_NAME, folderId, drive, fault)
           calls == IF got.folder = Thrown THEN got.calls
                    ELSE IF fault = "createFile"
                    THEN Append(got.calls, Call("createFile", TRUE))
                    ELSE got.calls \o
                           <<Call("createFile", FALSE),
                             Call("backupFolder.getName", fault = "backupFolder.getName")>>
       IN /\ driveBefore' = drive
          /\ folders' = got.folders
          /\ backupFolder' = IF got.folder = Thrown THEN backupFolder ELSE got.folder
          /\ driveCalls' = calls
          /\ files' = IF got.folder # Thrown /\ fault # "createFile"
                      THEN Append(files, JsonStringify(Arr(allDocuments)))
                      ELSE files
          /\ IF calls[Len(calls)].threw
             THEN /\ logged' = Append(logged, IF message = "Authorization is required"
                                              THEN "CRITICAL AUTHORIZATION ERROR"
                                              ELSE "ERROR SAVING TO DRIVE")
                  /\ outcome' = ExportCatch
             ELSE outcome' = "returned" /\ UNCHANGED logged
  /\ pc' = "done"
  /\ UNCHANGED <<run, codecVars, accessToken, tokenCalls, allDocuments, nextPageToken,
                 pageCount, pageRequests, pageResponses, folderId, importVars, result>>

\* the catch block of restoreFirestoreFromDriveCore: log, then throw an
\* error whose message starts with "Restore failed"
RestoreThrows(cause) ==
  /\ logged' = Append(logged, "FINAL RESTORATION ERROR")
  /\ result' = RestoreFailed(cause)
  /\ outcome' = RestoreCatch
  /\ pc' = "done"

\* return `Restore complete. ${successCount} documents restored/updated ...`
RestoreReturns(count) ==
  /\ result' = RestoreComplete(count)
  /\ outcome' = "returned"
  /\ pc' = "done"
  /\ UNCHANGED logged

\* accessToken = getServiceAccessToken(props.service_account_key), import
RestoreAuth ==
  /\ run = "import" /\ pc = "auth"
  /\ tokenCalls' = tokenCalls + 1
  /\ \E response \in TokenResponses :
       LET token == TokenOfResponse(response)
       IN IF token = Thrown
          THEN RestoreThrows("Authentication failed") /\ UNCHANGED accessToken
          ELSE /\ accessToken' = token
               /\ pc' = "read"
               /\ UNCHANGED <<logged, outcome, result>>
  /\ UNCHANGED <<run, codecVars, exportVars, importVars>>

\* phase 1: read the Drive file, check and parse its content; an empty
\* array of records makes the forEach a no-op and the function returns
ReadFile ==
  /\ run = "import" /\ pc = "read"
  /\ fileReads' = fileReads + 1
  /\ \E content \in DriveFiles :
       LET parsed == JsonParse(content)
       IN /\ fileContent' = content
          /\ IF content = Thrown
             THEN RestoreThrows("Could not read the Drive file") /\ UNCHANGED documentsToRestore
             ELSE IF TextEmpty(content) \/ TextBlank(content)
             THEN RestoreThrows("The Drive file is empty") /\ UNCHANGED documentsToRestore
             ELSE IF parsed = Thrown
             THEN RestoreThrows("SyntaxError") /\ UNCHANGED documentsToRestore
             ELSE IF PropThrows(parsed) \/ parsed.t # "array"
             THEN RestoreThrows("TypeError") /\ documentsToRestore' = parsed
             ELSE /\ documentsToRestore' = parsed
                  /\ IF Len(parsed.a) = 0
                     THEN RestoreReturns(successCount)
                     ELSE pc' = "patch" /\ UNCHANGED <<logged, outcome, result>>
  /\ UNCHANGED <<run, codecVars, accessToken, tokenCalls, exportVars, successCount,
                 upserts, upsertReplies>>

\* one iteration of documentsToRestore.forEach; after the last record the
\* function returns its status message
Upsert ==
  /\ run = "import" /\ pc = "patch"
  /\ LET docData == documentsToRestore.a[Len(upserts) + 1]
     IN IF PropThrows(docData)
        THEN RestoreThrows("TypeError") /\ UNCHANGED <<successCount, upserts, upsertReplies>>
        ELSE /\ upserts' = Append(upserts, UpsertRequest(docData, accessToken))
             /\ \E reply \in UpsertReplies :
                  /\ upsertReplies' = Append(upsertReplies, reply)
                  /\ IF reply = Thrown
                     THEN RestoreThrows("fetch failed") /\ UNCHANGED successCount
                     ELSE /\ successCount' = CountSuccess(successCount, reply.code)
                          /\ IF Len(upserts) + 1 = Len(documentsToRestore.a)
                             THEN RestoreReturns(CountSuccess(successCount, reply.code))
                             ELSE UNCHANGED <<pc, logged, outcome, result>>
  /\ UNCHANGED <<run, codecVars, accessToken, tokenCalls, exportVars, fileReads,
                 fileContent, documentsToRestore>>

Init == InitCodec \/ InitExport \/ InitImport

Next ==
  \/ Format \/ Extract
  \/ ExportAuth \/ FetchPage \/ SaveToDrive
  \/ RestoreAuth \/ ReadFile \/ Upsert

Spec == Init /\ [][Next]_vars

(***************************************************************************)
(* Vocabulary of the properties, stated on what went over the wire.        *)
(***************************************************************************)
\* a page response the export accepts: HTTP 200 with an empty body or JSON
Successful(response) ==
  response.code = 200 /\ (TextEmpty(response.text) \/ response.text.t = "json")

\* the continuation token a page response carries, None when it has none
TokenCarried(response) ==
  IF response.text.t = "json" /\ response.text.v.t = "object"
       /\ HasKey(response.text.v.o, "nextPageToken")
  THEN GetProp(response.text.v, "nextPageToken")
  ELSE None

CarriesToken(response) == TokenCarried(response) # None

\* the documents a page response lists
DocumentsCarried(response) ==
  IF response.text.t = "json" /\ response.text.v.t = "object"
       /\ HasKey(response.text.v.o, "documents")
  THEN GetProp(response.text.v, "documents").a
  ELSE <<>>

RECURSIVE ConcatPages(_)
ConcatPages(responses) ==
  IF Len(responses) = 0 THEN <<>>
  ELSE DocumentsCarried(responses[1]) \o ConcatPages(Tail(responses))

AllSuccessful == \A i \in 1..Len(pageResponses) : Successful(pageResponses[i])

\* the do...while loop of the export has been left by its condition
LoopOver == run = "export" /\ accessToken # None /\ pc \in {"save", "done"} /\ AllSuccessful

EmptyJsonArray == JsonText(Arr(<<>>))

RECURSIVE Count200(_)
Count200(replies) ==
  IF Len(replies) = 0 THEN 0
  ELSE (IF replies[1] # Thrown /\ replies[1].code = 200 THEN 1 ELSE 0)
         + Count200(Tail(replies))

RECURSIVE HasTimestamp(_)
HasTimestamp(v) ==
  CASE v.t = "string" -> TimestampTest(v.s)
    [] v.t = "array" -> \E i \in 1..Len(v.a) : HasTimestamp(v.a[i])
    [] v.t = "object" -> \E i \in 1..Len(v.o) : HasTimestamp(v.o[i][2])
    [] OTHER -> FALSE

\* the tags the codec is specified to recognize
RecognizedTags ==
  {"stringValue", "integerValue", "doubleValue", "booleanValue", "timestampValue",
   "nullValue", "arrayValue", "mapValue"}

UnrecognizedField(f) ==
  f.t = "object" /\ Len(f.o) > 0 /\ FieldType(f) \notin RecognizedTags

(***************************************************************************)
(* C1: with successful page responses only, the export loop fetches at     *)
(* least once and stops exactly at the first response without continuation *)
(* token: every response but the latest carries a token, the loop is left  *)
(* only when the latest carries none, and it goes on while the latest      *)
(* carries one.                                                            *)
(***************************************************************************)
C1_StopsAtFirstTokenlessResponse ==
  (run = "export" /\ AllSuccessful) =>
    /\ Len(pageRequests) = pageCount /\ Len(pageResponses) = pageCount
    /\ \A i \in 1..(Len(pageResponses) - 1) : CarriesToken(pageResponses[i])
    /\ LoopOver =>
         /\ pageCount >= 1
         /\ ~CarriesToken(pageResponses[pageCount])
    /\ (pageCount >= 1 /\ CarriesToken(pageResponses[pageCount])) => pc = "fetch"
    /\ (pageCount >= 1 /\ ~CarriesToken(pageResponses[pageCount])) => pc \in {"save", "done"}

C1_Witness ==
  /\ LoopOver /\ pc = "save" /\ pageCount = 3
  /\ CarriesToken(pageResponses[1]) /\ CarriesToken(pageResponses[2])
  /\ ~CarriesToken(pageResponses[3])

(***************************************************************************)
(* C2: when the export loop finishes, allDocuments holds one plain         *)
(* document per listed document, in page order and within-page order: its  *)
(* length is the sum of the page sizes and its i-th element is the plain   *)
(* document of the i-th listed document.                                   *)
(***************************************************************************)
C2_AccumulatesAllPagesInOrder ==
  LoopOver =>
    LET listed == ConcatPages(pageResponses)
    IN /\ Len(allDocuments) = Len(listed)
       /\ \A i \in 1..Len(listed) :
            /\ GetProp(allDocuments[i], "docId")
                 = Str(LastSegment(GetProp(listed[i], "name").s))
            /\ allDocuments[i] = DocData(listed[i])

C2_Witness ==
  /\ LoopOver /\ pageCount = 3
  /\ \A i \in 1..3 : Len(DocumentsCarried(pageResponses[i])) >= 1
  /\ GetProp(allDocuments[1], "docId") # GetProp(allDocuments[2], "docId")

(***************************************************************************)
(* C3: a first page response that is HTTP 200 without documents and        *)
(* without token (an empty body included) ends the export after exactly    *)
(* one fetch with an empty document list; no error is logged for it, and   *)
(* the file the save phase creates holds the empty JSON array.             *)
(***************************************************************************)
EmptyFinalPage(response) ==
  /\ response.code = 200
  /\ \/ TextEmpty(response.text)
     \/ /\ response.text.t = "json"
        /\ response.text.v.t = "object"
        /\ DocumentsCarried(response) = <<>>
        /\ ~CarriesToken(response)

C3_EmptyCollectionIsNotAnError ==
  (run = "export" /\ pageCount >= 1 /\ EmptyFinalPage(pageResponses[1])) =>
    /\ pageCount = 1 /\ Len(pageRequests) = 1
    /\ allDocuments = <<>>
    /\ pc \in {"save", "done"}
    /\ \A i \in 1..Len(logged) : logged[i] # "FINAL ERROR"
    /\ \A i \in 1..Len(files) : files[i] = EmptyJsonArray
    /\ (pc = "done" /\ logged = <<>>) => (files = <<EmptyJsonArray>> /\ outcome = "returned")

C3_Witness ==
  /\ run = "export" /\ pc = "done" /\ pageCount = 1
  /\ TextEmpty(pageResponses[1].text) /\ pageResponses[1].code = 200
  /\ files = <<EmptyJsonArray>>

(***************************************************************************)
(* C4: the backup file is created at most once and only after a successful *)
(* response without continuation token ended the loop; a non-200 page      *)
(* response is the last fetch of the run and leaves no backup file.        *)
(***************************************************************************)
C4_NoPartialBackup ==
  run = "export" =>
    /\ Len(files) <= 1
    /\ Len(files) = 1 =>
         /\ pc = "done" /\ pageCount >= 1
         /\ \A i \in 1..pageCount : pageResponses[i].code = 200
         /\ Successful(pageResponses[pageCount])
         /\ ~CarriesToken(pageResponses[pageCount])
    /\ \A i \in 1..Len(pageResponses) :
         pageResponses[i].code # 200 =>
           /\ i = Len(pageResponses) /\ pageCount = i
           /\ pc = "done"
           /\ files = <<>>

C4_Witness ==
  /\ run = "export" /\ pc = "done" /\ pageCount = 2
  /\ pageResponses[2].code = 403
  /\ Len(allDocuments) >= 1
  /\ files = <<>>

(***************************************************************************)
(* C5 as stated: a run in which a fatal error occurred (one that a catch   *)
(* block of the entry point saw) does not return normally.                 *)
(***************************************************************************)
C5_EveryFatalErrorIsRaised ==
  (run \in {"export", "import"} /\ logged # <<>>) => outcome = "raised"

(***************************************************************************)
(* C5 amended: a fatal error of an import run is raised once by            *)
(* restoreFirestoreFromDriveCore as a "Restore failed" error; a fatal      *)
(* error of an export run is logged once inside                            *)
(* backupFirestoreToDrivePaginated, which returns normally, and after a    *)
(* token or page-fetch failure no backup file exists.                      *)
(***************************************************************************)
C5_ImportRaisesExportLogs ==
  (run \in {"export", "import"} /\ logged # <<>>) =>
    /\ Len(logged) = 1 /\ pc = "done"
    /\ run = "import" => (outcome = "raised" /\ result.t = "Restore failed")
    /\ run = "export" =>
         /\ outcome = "returned" /\ result = None
         /\ logged = <<"FINAL ERROR">> => files = <<>>

C5_Witness ==
  /\ run = "export" /\ outcome = "returned"
  /\ logged = <<"FINAL ERROR">>
  /\ pageCount = 2 /\ pageResponses[2].code = 500

(***************************************************************************)
(* C6: as long as every upsert request gets an HTTP response, the import   *)
(* sends one upsert per record in list order, goes on after a non-200      *)
(* response, never raises, and returns a success count equal to the number *)
(* of 200 responses.                                                       *)
(***************************************************************************)
C6_BestEffortImport ==
  (run = "import" /\ documentsToRestore.t = "array"
     /\ \A i \in 1..Len(upsertReplies) : upsertReplies[i] # Thrown) =>
    LET records == documentsToRestore.a
    IN /\ Len(upserts) = Len(upsertReplies) /\ Len(upserts) <= Len(records)
       /\ \A i \in 1..Len(upserts) :
            upserts[i].docId = TemplateString(GetProp(records[i], "docId"))
       /\ successCount = Count200(upsertReplies)
       /\ outcome # "raised"
       /\ Len(upserts) < Len(records) => pc = "patch"
       /\ Len(upserts) = Len(records) =>
            /\ outcome = "returned"
            /\ result = RestoreComplete(Count200(upsertReplies))

C6_Witness ==
  /\ run = "import" /\ outcome = "returned"
  /\ Len(upserts) = 3
  /\ upsertReplies = <<[code |-> 200], [code |-> 500], [code |-> 200]>>
  /\ result = RestoreComplete(2)

(***************************************************************************)
(* C7 as stated: no upsert request is sent for a record that carries no    *)
(* docId, and such a record is not counted as a success.                   *)
(***************************************************************************)
C7_NoUpsertWithoutDocId ==
  (run = "import" /\ documentsToRestore.t = "array") =>
    \A i \in 1..Len(upserts) :
      GetProp(documentsToRestore.a[i], "docId") # Undefined

(***************************************************************************)
(* C8: a run calls getServiceAccessToken once, before any page fetch, file *)
(* read or creation, or upsert; every request carries the token of that    *)
(* call; when issuance failed the run did none of these.                   *)
(***************************************************************************)
DidIo ==
  \/ pageRequests # <<>> \/ files # <<>> \/ fileReads > 0 \/ upserts # <<>>

C8_OneTokenBeforeAnyIo ==
  run \in {"export", "import"} =>
    /\ tokenCalls <= 1
    /\ pc # "auth" => tokenCalls = 1
    /\ DidIo => (tokenCalls = 1 /\ accessToken.t = "string" /\ Len(accessToken.s) > 0)
    /\ \A i \in 1..Len(pageRequests) : pageRequests[i].bearer = accessToken
    /\ \A i \in 1..Len(upserts) : upserts[i].bearer = accessToken
    /\ (tokenCalls = 1 /\ accessToken = None) => (~DidIo /\ pc = "done")

C8_Witness ==
  /\ run = "import" /\ tokenCalls = 1 /\ accessToken = None
  /\ pc = "done" /\ outcome = "raised" /\ ~DidIo

(***************************************************************************)
(* C9 as stated: decoding the encoding of a plain value without timestamp  *)
(* string gives the value back, integers included.                         *)
(***************************************************************************)
C9_RoundTrip ==
  (run = "codec" /\ pc = "codec_done" /\ plain # None /\ ~HasTimestamp(plain)) =>
    decoded = plain

(***************************************************************************)
(* C10 as stated: a field with an unrecognized tag decodes to null.        *)
(***************************************************************************)
C10_UnrecognizedTagIsNull ==
  (run = "codec" /\ pc = "codec_done" /\ UnrecognizedField(field)) => decoded = Null

(***************************************************************************)
(* C10 amended: decoding a field with an unrecognized tag never raises; it *)
(* gives null for the tag undefinedValue and the payload of the field,     *)
(* unchanged, for every other unrecognized tag.                            *)
(***************************************************************************)
C10_UnrecognizedTagIsPayload ==
  (run = "codec" /\ pc = "codec_done" /\ UnrecognizedField(field)) =>
    /\ decoded # Thrown
    /\ decoded = IF FieldType(field) = "undefinedValue" THEN Null
                 ELSE GetProp(field, FieldType(field))

C10_Witness ==
  /\ run = "codec" /\ pc = "codec_done"
  /\ field = Field("geoPointValue",
                   Obj(<< <<"latitude", Num(35)>>, <<"longitude", IntNum(42)>> >>))
  /\ decoded # Null

(***************************************************************************)
(* C11 as stated: a string is encoded with the timestamp tag exactly when  *)
(* the whole string has the form YYYY-MM-DDTHH:MM:SS.sssZ; every other     *)
(* string, one with characters before or after such a form included, is    *)
(* encoded with the string tag.                                            *)
(***************************************************************************)
ExactTimestampForm(s) == Len(s) = Len(TimestampPattern) /\ MatchesAt(s, 0)

C11_TimestampTagIffExactForm ==
  (run = "codec" /\ pc \in {"extract", "codec_done"} /\ plain.t = "string") =>
    /\ FieldType(field) \in {"timestampValue", "stringValue"}
    /\ FieldType(field) = "timestampValue" <=> ExactTimestampForm(plain.s)

(***************************************************************************)
(* C12: the page requests of an export run are chained: the first carries  *)
(* no page token, every later one carries the continuation token of the    *)
(* response before it, and a request is sent only when every earlier       *)
(* response has been received and its documents appended.                  *)
(***************************************************************************)
C12_PageRequestsAreChained ==
  (run = "export" /\ AllSuccessful) =>
    /\ Len(pageRequests) = Len(pageResponses)
    /\ Len(allDocuments) = Len(ConcatPages(pageResponses))
    /\ \A i \in 1..Len(pageRequests) :
         pageRequests[i].pageToken =
           IF i = 1 THEN Null ELSE TokenCarried(pageResponses[i - 1])

C12_Witness ==
  /\ run = "export" /\ AllSuccessful /\ pageCount = 3
  /\ pageRequests[1].pageToken = Null
  /\ pageRequests[2].pageToken = PageTokenOf(1)
  /\ pageRequests[3].pageToken = PageTokenOf(2)
  /\ Len(allDocuments) >= 2

(***************************************************************************)
(* C13: docId is not a data field on the wire.  Every exported document    *)
(* has exactly one docId entry, equal to the last path segment of its      *)
(* resource name, next to the names of its remote fields other than docId  *)
(* (also without remote fields, also with a remote field named docId).     *)
(* The upsert of a record that carries a docId is addressed to that docId, *)
(* and its fields body has the record's other field names and no docId.    *)
(***************************************************************************)
KeysOf(entries) == [i \in 1..Len(entries) |-> entries[i][1]]

RECURSIVE Except(_, _)
Except(keys, key) ==
  IF Len(keys) = 0 THEN <<>>
  ELSE IF keys[1] = key THEN Except(Tail(keys), key)
  ELSE <<keys[1]>> \o Except(Tail(keys), key)

RemoteFieldNames(doc) ==
  IF HasKey(doc.o, "fields") THEN KeysOf(GetProp(doc, "fields").o) ELSE <<>>

C13_DocIdIsNotADataField ==
  /\ (run = "export" /\ AllSuccessful) =>
       LET listed == ConcatPages(pageResponses)
       IN /\ Len(allDocuments) = Len(listed)
          /\ \A i \in 1..Len(listed) :
               /\ Cardinality({k \in 1..Len(allDocuments[i].o) :
                                 allDocuments[i].o[k][1] = "docId"}) = 1
               /\ GetProp(allDocuments[i], "docId")
                    = Str(LastSegment(GetProp(listed[i], "name").s))
               /\ Except(KeysOf(allDocuments[i].o), "docId")
                    = Except(RemoteFieldNames(listed[i]), "docId")
  /\ (run = "import" /\ documentsToRestore.t = "array") =>
       \A i \in 1..Len(upserts) :
         LET record == documentsToRestore.a[i]
             body == upserts[i].payload.v
         IN GetProp(record, "docId").t = "string" =>
              /\ upserts[i].docId = GetProp(record, "docId").s
              /\ KeysOf(body.o) = <<"fields">>
              /\ KeysOf(GetProp(body, "fields").o) = Except(KeysOf(record.o), "docId")

C13_Witness ==
  /\ run = "import" /\ Len(upserts) >= 2
  /\ documentsToRestore.a[1] = Record2 /\ documentsToRestore.a[2] = Record1
  /\ upserts[1].docId = <<"d", "2">>
  /\ KeysOf(GetProp(upserts[1].payload.v, "fields").o) = <<"s", "n">>
  /\ upserts[2].docId = <<"d", "1">>

(***************************************************************************)
(* C14: if the backup file of an import cannot be read, or its content is  *)
(* empty or only whitespace, restoreFirestoreFromDriveCore raises a        *)
(* failure to its caller and sends no upsert request at all.               *)
(***************************************************************************)
Unusable(content) ==
  content = Thrown \/ TextEmpty(content) \/ TextBlank(content)

C14_UnusableFileRaisesBeforeAnyUpsert ==
  (run = "import" /\ fileReads >= 1 /\ Unusable(fileContent)) =>
    /\ pc = "done" /\ outcome = "raised"
    /\ result.t = "Restore failed"
    /\ result.cause = IF fileContent = Thrown THEN "Could not read the Drive file"
                      ELSE "The Drive file is empty"
    /\ upserts = <<>> /\ upsertReplies = <<>> /\ successCount = 0
    /\ documentsToRestore = None

C14_Witness ==
  /\ run = "import" /\ fileReads = 1 /\ TextBlank(fileContent)
  /\ fileContent # Str(<<>>)
  /\ outcome = "raised" /\ upserts = <<>>

(***************************************************************************)
(* C15: if an upsert request of an import throws instead of returning an   *)
(* HTTP response, the batch is aborted: it is the last request sent, the   *)
(* successes counted so far are not reported, and the function raises an   *)
(* error whose message contains "Restore failed".  A non-200 response is   *)
(* tolerated: the run goes on to the next record.                          *)
(***************************************************************************)
C15_ThrowingUpsertAbortsTheBatch ==
  run = "import" =>
    \A i \in 1..Len(upsertReplies) :
      /\ upsertReplies[i] = Thrown =>
           /\ i = Len(upsertReplies) /\ Len(upserts) = i
           /\ pc = "done" /\ outcome = "raised"
           /\ result.t # "Restore complete"
           /\ IncludesPhrase(result.message, "Restore failed")
      /\ (upsertReplies[i] # Thrown /\ i = Len(upserts)
            /\ i < Len(documentsToRestore.a)) =>
           pc = "patch" /\ outcome = "running"

C15_Witness ==
  /\ run = "import" /\ documentsToRestore.t = "array"
  /\ Len(documentsToRestore.a) = 3
  /\ Len(upserts) = 2 /\ upsertReplies = <<[code |-> 200], Thrown>>
  /\ successCount = 1 /\ outcome = "raised"
  /\ IncludesPhrase(result.message, "Restore failed")

(***************************************************************************)
(* C16: getOrCreateFolder prioritizes the folder ID.  When an ID is given  *)
(* and resolves, that folder is returned and no name search or creation    *)
(* happens.  When the ID is absent or fails, the first existing folder     *)
(* with the given name is returned, and a new folder is created only when  *)
(* no folder has that name.  At most one folder is created per call.       *)
(***************************************************************************)
Made(name) == \E i \in 1..Len(driveCalls) : driveCalls[i].call = name

Returned(name) ==
  \E i \in 1..Len(driveCalls) : driveCalls[i].call = name /\ ~driveCalls[i].threw

\* the lookup by ID went through: the try block of getOrCreateFolder finished
IdResolved == Returned("getFolderById") /\ Returned("folder.getName")

\* getOrCreateFolder returned a folder to the saving phase
FolderReturned == Made("createFile")

Named(drive, name) == IndexByName(drive, name) > 0

C16_FolderIdFirstThenNameThenCreate ==
  (run = "export" /\ driveCalls # <<>>) =>
    /\ Made("getFolderById") <=> Truthy(folderId)
    /\ IdResolved =>
         /\ FolderReturned
         /\ backupFolder.id = folderId.s
         /\ \E i \in 1..Len(driveBefore) : driveBefore[i] = backupFolder
         /\ ~Made("getFoldersByName") /\ ~Made("createFolder")
         /\ folders = driveBefore
    /\ ~IdResolved => Made("getFoldersByName")
    /\ (~IdResolved /\ FolderReturned) =>
         IF Named(driveBefore, DRIVE_FOLDER_NAME)
         THEN /\ backupFolder = driveBefore[IndexByName(driveBefore, DRIVE_FOLDER_NAME)]
              /\ ~Made("createFolder")
              /\ folders = driveBefore
         ELSE /\ Returned("createFolder")
              /\ backupFolder.name = DRIVE_FOLDER_NAME
              /\ folders = Append(driveBefore, backupFolder)
    /\ Returned("createFolder") =>
         (~IdResolved /\ ~Named(driveBefore, DRIVE_FOLDER_NAME))
    /\ Cardinality({i \in 1..Len(driveCalls) : driveCalls[i].call = "createFolder"}) <= 1
    /\ Len(folders) = Len(driveBefore) + (IF Returned("createFolder") THEN 1 ELSE 0)

\* the configured ID resolves to a folder with another name while a folder
\* with the backup name comes first in the Drive: the file goes to the
\* configured folder
C16_Witness ==
  /\ run = "export" /\ pc = "done" /\ outcome = "returned"
  /\ folderId = Str(ConfiguredId)
  /\ driveBefore = <<Folder(<<"F", "2">>, DRIVE_FOLDER_NAME), Folder(ConfiguredId, "Archive")>>
  /\ backupFolder = Folder(ConfiguredId, "Archive")
  /\ folders = driveBefore
  /\ Len(files) = 1

=============================================================================
